---- MODULE Spec2Model ----
(***************************************************************************)
(* Transcript topic-clustering engine of Alfred: the segmenter and batch   *)
(* planner (pure functions), the on-demand clustering route, the scheduled *)
(* clustering jobs, the topic_clusters record and the conversations page   *)
(* that clusters incrementally, merges, renames and deletes.               *)
(*                                                                         *)
(* Dates are minutes of the day; getTime() turns them into milliseconds.   *)
(***************************************************************************)
EXTENDS Integers, Sequences, FiniteSets, TLC

\* ------------------------------------------------------------------ bounds
\* MAX_BATCH_SIZE is 25 (on-demand route) or 40 (scheduled job) in the source;
\* the model scales it down so that oversized segments and multi-batch runs occur.
MAX_BATCH_SIZE == 2
CONVERSATION_GAP_MINUTES == 30

\* Longest transcript list handed to the segmenter.
MaxPlanLen == 3
\* Largest number of transcripts over all segments handed to the batch planner.
MaxSegTotal == 6

\* Minutes of the day: 09:00, 09:10, 09:40 (exactly 30 after 09:10),
\* 10:11 (31 after 09:40) and 11:00.
PlanTimes == {540, 550, 580, 611, 660}

VARIABLES
  planInput,      \* segmenter: the transcript list given
  planPerm,       \* segmenter: the same transcripts in another order
  planGroups,     \* segmenter: groupByTimeProximity(planInput)
  planGroupsPerm, \* segmenter: groupByTimeProximity(planPerm)
  planSegs,       \* batch planner: the segments given
  planBatches,    \* batch planner: createBatches(planSegs)
  planPc          \* "input" before the function ran, "done" after

VARIABLES
  dbIds,          \* transcriptions table: the ids of the rows of the date
  stored,         \* topic_clusters: the record of (user, date), or NoRecord
  lastPut,        \* who wrote stored last
  now,            \* wall clock, minutes
  gatewayKinds,   \* the shapes of answer the completion service gives in this run
  runsLeft,       \* clustering runs and page operations still allowed
  route,          \* the on-demand route's invocation: request, position, locals
  cronResult,     \* results[] entry of the last scheduled run
  interp          \* the last completion call: its answer and what was made of it

VARIABLES
  transcriptions,      \* page state: the rows of the date, newest first
  topics,              \* page state: the clusters shown, joined with their transcripts
  loading,             \* page state
  clustering,          \* page state: a clustering request is in flight
  clusterError,        \* page state: "null" or the message shown
  viewMode,            \* page state: "list" or "topics"
  selectedTopics,      \* page state: ids of the topics ticked for a merge
  selectedTranscripts, \* page state: ids of the unclustered transcripts ticked
  trashedIds,          \* page state: ids moved to the trash in this session
  pending,             \* the handler awaiting its fetch, with the state its closure holds
  invoked,             \* the handler invoked last, and the unclustered count it saw
  opsLeft              \* clicks still allowed

sysVars == <<dbIds, stored, lastPut, now, gatewayKinds, runsLeft, route, cronResult, interp>>

pageVars == <<transcriptions, topics, loading, clustering, clusterError, viewMode,
              selectedTopics, selectedTranscripts, trashedIds, pending, invoked, opsLeft>>

planVars == <<planInput, planPerm, planGroups, planGroupsPerm, planSegs, planBatches, planPc>>

vars == <<planVars, sysVars, pageVars>>

\* ------------------------------------------------------------- sequences
Range(s) == {s[i] : i \in DOMAIN s}

RECURSIVE Flatten(_)
Flatten(ss) == IF ss = <<>> THEN <<>> ELSE Head(ss) \o Flatten(Tail(ss))

\* Array.prototype.slice(from, to) with 0-based, end-exclusive indices.
Slice(s, from, to) ==
  LET hi == IF to > Len(s) THEN Len(s) ELSE to
  IN  IF from >= hi THEN <<>> ELSE SubSeq(s, from + 1, hi)

IsPermutationOf(s, t) ==
  /\ Len(s) = Len(t)
  /\ \A x \in Range(s) \cup Range(t) :
       Cardinality({i \in DOMAIN s : s[i] = x}) = Cardinality({i \in DOMAIN t : t[i] = x})

\* All orderings of the members of a finite set.
RECURSIVE Orderings(_)
Orderings(S) ==
  IF S = {} THEN {<<>>}
  ELSE UNION {{<<x>> \o o : o \in Orderings(S \ {x})} : x \in S}

\* ------------------------------------------------------------- segmenter
\* new Date(t.date).getTime(): milliseconds.
GetTime(date) == date * 60 * 1000

\* The comparator's sign decides: a negative or zero result keeps a before b.
\* Array.prototype.sort is stable, so equal times keep their input order.
RECURSIVE InsertByDate(_, _)
InsertByDate(sorted, x) ==
  IF sorted = <<>> THEN <<x>>
  ELSE IF GetTime(Head(sorted).date) - GetTime(x.date) <= 0
       THEN <<Head(sorted)>> \o InsertByDate(Tail(sorted), x)
       ELSE <<x>> \o sorted

RECURSIVE SortByDateFrom(_, _)
SortByDateFrom(sorted, rest) ==
  IF rest = <<>> THEN sorted
  ELSE SortByDateFrom(InsertByDate(sorted, Head(rest)), Tail(rest))

SortByDate(transcripts) == SortByDateFrom(<<>>, transcripts)

GapExceedsInclusive(prev, curr) ==
  (GetTime(curr.date) - GetTime(prev.date)) \div (1000 * 60) >= CONVERSATION_GAP_MINUTES

\* gapMinutes > CONVERSATION_GAP_MINUTES
GapExceeds(prev, curr) ==
  (GetTime(curr.date) - GetTime(prev.date)) \div (1000 * 60) > CONVERSATION_GAP_MINUTES

\* The for loop of groupByTimeProximity, from index i (1-based here) on.
RECURSIVE GroupLoop(_, _, _, _)
GroupLoop(sorted, i, groups, currentGroup) ==
  IF i > Len(sorted)
  THEN IF Len(currentGroup) > 0 THEN Append(groups, currentGroup) ELSE groups
  ELSE IF GapExceeds(sorted[i - 1], sorted[i])
       THEN GroupLoop(sorted, i + 1, Append(groups, currentGroup), <<sorted[i]>>)
       ELSE GroupLoop(sorted, i + 1, groups, Append(currentGroup, sorted[i]))

groupByTimeProximity(transcripts) ==
  IF Len(transcripts) = 0 THEN <<>>
  ELSE LET sorted == SortByDate(transcripts)
       IN  GroupLoop(sorted, 2, <<>>, <<sorted[1]>>)

\* --------------------------------------------------------- batch planner
\* The chunks group.slice(i, i + MAX_BATCH_SIZE) for i = from, from + MAX, ...
RECURSIVE Chunks(_, _)
Chunks(group, from) ==
  IF from >= Len(group) THEN <<>>
  ELSE <<Slice(group, from, from + MAX_BATCH_SIZE)>> \o Chunks(group, from + MAX_BATCH_SIZE)

\* An oversized group is treated like any other group.
BatchStepNoSplit(st, group) ==
  IF Len(st.currentBatch) + Len(group) > MAX_BATCH_SIZE
  THEN [batches |-> Append(st.batches, st.currentBatch), currentBatch |-> group]
  ELSE [batches |-> st.batches, currentBatch |-> st.currentBatch \o group]

\* The flush before a new batch is forgotten.
BatchStepNoFlush(st, group) ==
  IF Len(group) > MAX_BATCH_SIZE
  THEN [batches |-> st.batches \o Chunks(group, 0), currentBatch |-> <<>>]
  ELSE IF Len(st.currentBatch) + Len(group) > MAX_BATCH_SIZE
       THEN [batches |-> st.batches, currentBatch |-> group]
       ELSE [batches |-> st.batches, currentBatch |-> st.currentBatch \o group]

\* One iteration of the loop over timeGroups; st = [batches, currentBatch].
BatchStep(st, group) ==
  IF Len(group) > MAX_BATCH_SIZE
  THEN LET flushed == IF Len(st.currentBatch) > 0
                      THEN Append(st.batches, st.currentBatch)
                      ELSE st.batches
       IN  [batches |-> flushed \o Chunks(group, 0), currentBatch |-> <<>>]
  ELSE IF Len(st.currentBatch) + Len(group) > MAX_BATCH_SIZE
       THEN [batches |-> Append(st.batches, st.currentBatch), currentBatch |-> group]
       ELSE [batches |-> st.batches, currentBatch |-> st.currentBatch \o group]

RECURSIVE BatchLoop(_, _)
BatchLoop(st, timeGroups) ==
  IF timeGroups = <<>> THEN st
  ELSE BatchLoop(BatchStep(st, Head(timeGroups)), Tail(timeGroups))

createBatches(timeGroups) ==
  LET st == BatchLoop([batches |-> <<>>, currentBatch |-> <<>>], timeGroups)
  IN  IF Len(st.currentBatch) > 0 THEN Append(st.batches, st.currentBatch) ELSE st.batches

\* ------------------------------------------- inputs of the pure functions
PlanIds == 1..MaxPlanLen

\* Every list of distinct transcripts, of every length up to MaxPlanLen,
\* with every assignment of times (equal times included).
PlanInputs ==
  UNION {{[i \in DOMAIN o |-> [id |-> o[i], date |-> d[o[i]]]] : o \in Orderings(S)} :
         S \in SUBSET PlanIds, d \in [PlanIds -> PlanTimes]}

\* The transcripts 1..n as one chronological list.
SegTranscripts(n) == [i \in 1..n |-> [id |-> i, date |-> 540 + i]]

\* Every way of cutting the list s into consecutive non-empty segments.
RECURSIVE Compositions(_)
Compositions(s) ==
  IF s = <<>> THEN {<<>>}
  ELSE UNION {{<<SubSeq(s, 1, k)>> \o c : c \in Compositions(SubSeq(s, k + 1, Len(s)))} :
              k \in 1..Len(s)}

PlanSegmentLists == UNION {Compositions(SegTranscripts(n)) : n \in 0..MaxSegTotal}

\* ================================================================= engine
\* ------------------------------------------------------------ transcripts
\* Transcripts of the owner on the date the page shows.
NumTranscripts == 3
Ids == 1..NumTranscripts

\* 09:00, 09:10, then 11:00, 11:10, ...: a break of more than 30 minutes
\* lies before the third transcript.
DateOf(i) ==
  IF i <= 2 THEN 540 + 10 * (i - 1)
  ELSE IF i <= NumTranscripts THEN 660 + 10 * (i - 3)
  ELSE 24 * 60 + 540

Transcript(i) == [id |-> i, date |-> DateOf(i)]

\* An id the completion service may invent: no transcript has it.
ForeignId == 0

\* The transcripts with the ids S, as .order('date', { ascending: true })
\* returns them.
RECURSIVE RowsOf(_)
RowsOf(S) ==
  IF S = {} THEN <<>>
  ELSE LET first == CHOOSE i \in S : \A j \in S : DateOf(i) <= DateOf(j)
       IN  <<Transcript(first)>> \o RowsOf(S \ {first})

\* The rows of the date.
DayTranscripts(S) == RowsOf(S)

\* One more transcript of the same owner, recorded on the following day.
OtherDayId == NumTranscripts + 1
OtherDayTranscript == Transcript(OtherDayId)

\* Every row of the owner, ascending by date.
UserTranscripts(S) == Append(DayTranscripts(S), OtherDayTranscript)

\* --------------------------------------------------------------- clusters
\* Ids: "batch{a}_topic_{b}", "batch{a}_fallback", "merged_{a}", and the
\* service's own "topic_{a}".
ClusterId(kind, a, b) == [kind |-> kind, a |-> a, b |-> b]

\* A title is a list of parts and a summary a list of sentences: join(' + ')
\* and join(' ') concatenate lists.
TitlePart(text, n) == [text |-> text, n |-> n]

\* A value with none of the TopicCluster fields (what { ...1 } spreads to).
NoFields ==
  [id |-> ClusterId("none", 0, 0), title |-> <<>>, category |-> "undefined",
   summary |-> <<>>, sections |-> <<>>, hasIds |-> FALSE, transcriptIds |-> <<>>,
   startTime |-> 0, endTime |-> 0, enriched |-> FALSE, transcripts |-> <<>>]

UserIds == Ids \cup {OtherDayId}

\* The earliest and the latest date among the transcripts named (0: none).
MinDate(ids) == IF \E i \in Range(ids) : i \in UserIds
                THEN CHOOSE d \in {DateOf(i) : i \in Range(ids) \cap UserIds} :
                       \A i \in Range(ids) \cap UserIds : d <= DateOf(i)
                ELSE 0
MaxDate(ids) == IF \E i \in Range(ids) : i \in UserIds
                THEN CHOOSE d \in {DateOf(i) : i \in Range(ids) \cap UserIds} :
                       \A i \in Range(ids) \cap UserIds : d >= DateOf(i)
                ELSE 0

\* ------------------------------------------------- the completion service
\* A response text is a list of tokens: "[", "]", "junk" (prose or broken
\* JSON), "num" (a JSON value that is no object) and "obj" (a JSON object).
Tok(k) == [k |-> k, v |-> NoFields]
ObjTok(o) == [k |-> "obj", v |-> o]

\* A cluster object as the prompt asks for it: the n-th of the response.
ModelObj(ids, n) ==
  [NoFields EXCEPT !.id = ClusterId("topic", n, 0), !.title = <<TitlePart("model", n)>>,
                   !.category = "Work", !.summary = <<"model">>, !.sections = <<"section">>,
                   !.hasIds = TRUE, !.transcriptIds = ids,
                   !.startTime = MinDate(ids), !.endTime = MaxDate(ids)]

BatchIds(transcripts) == [i \in DOMAIN transcripts |-> transcripts[i].id]

\* What the service may answer for one batch: kind names the shape.
GatewayResponse(kind, transcripts) ==
  LET ids == BatchIds(transcripts)
      n   == Len(ids)
  IN  CASE kind = "throws"     -> [throws |-> TRUE, text |-> <<>>]
        [] kind = "prose"      -> [throws |-> FALSE, text |-> <<Tok("junk")>>]
        [] kind = "badJson"    -> [throws |-> FALSE,
                                   text |-> <<Tok("["), ObjTok(ModelObj(ids, 1)), Tok("junk"), Tok("]")>>]
        [] kind = "twoArrays"  -> [throws |-> FALSE,
                                   text |-> <<Tok("["), ObjTok(ModelObj(ids, 1)), Tok("]"),
                                              Tok("junk"), Tok("["), Tok("]")>>]
        [] kind = "emptyArray" -> [throws |-> FALSE, text |-> <<Tok("["), Tok("]")>>]
        [] kind = "nonObject"  -> [throws |-> FALSE, text |-> <<Tok("["), Tok("num"), Tok("]")>>]
        [] kind = "noIds"      -> [throws |-> FALSE,
                                   text |-> <<Tok("["),
                                              ObjTok([ModelObj(ids, 1) EXCEPT !.hasIds = FALSE,
                                                                            !.transcriptIds = <<>>]),
                                              Tok("]")>>]
        [] kind = "one"        -> [throws |-> FALSE,
                                   text |-> <<Tok("junk"), Tok("["), ObjTok(ModelObj(ids, 1)),
                                              Tok("]"), Tok("junk")>>]
        [] kind = "split"      -> [throws |-> FALSE,
                                   text |-> <<Tok("["), ObjTok(ModelObj(SubSeq(ids, 1, 1), 1)),
                                              ObjTok(ModelObj(SubSeq(ids, 2, n), 2)), Tok("]")>>]
        [] kind = "lossy"      -> [throws |-> FALSE,
                                   text |-> <<Tok("["), ObjTok(ModelObj(SubSeq(ids, 1, n - 1), 1)),
                                              Tok("]")>>]
        [] kind = "overlap"    -> [throws |-> FALSE,
                                   text |-> <<Tok("["), ObjTok(ModelObj(ids, 1)),
                                              ObjTok(ModelObj(SubSeq(ids, 1, 1), 2)), Tok("]")>>]
        [] kind = "foreign"    -> [throws |-> FALSE,
                                   text |-> <<Tok("["), ObjTok(ModelObj(Append(ids, ForeignId), 1)),
                                              Tok("]")>>]
        [] kind = "wrongTimes" -> [throws |-> FALSE,
                                   text |-> <<Tok("["),
                                              ObjTok([ModelObj(ids, 1) EXCEPT !.startTime = 0,
                                                                            !.endTime = 0]),
                                              Tok("]")>>]

\* Responses that partition the batch's ids among their clusters.
PartitionKinds == {"one", "split", "wrongTimes"}
\* Responses that are no usable cluster array.
UnparsableKinds == {"prose", "badJson", "twoArrays"}
AllKinds == {"throws", "emptyArray", "nonObject", "noIds", "lossy", "overlap", "foreign"}
              \cup PartitionKinds \cup UnparsableKinds

\* What the service does in one behaviour: it answers well ("one") or in
\* one of a few other ways.
GatewayProfiles ==
  {{"one", "throws", "prose", "badJson"},
   {"one", "twoArrays", "emptyArray", "nonObject"},
   {"one", "noIds", "lossy", "overlap"},
   {"one", "split", "foreign", "wrongTimes"}}

\* --------------------------------------------------- response interpreter
NoMatch == <<>>

\* responseText.match(/\[[\s\S]*\]/): from the first "[" to the last "]".
JsonMatch(text) ==
  LET opens == {i \in DOMAIN text : text[i].k = "["} IN
  IF opens = {} THEN NoMatch
  ELSE LET first  == CHOOSE i \in opens : \A j \in opens : i <= j
           closes == {j \in DOMAIN text : j > first /\ text[j].k = "]"}
       IN  IF closes = {} THEN NoMatch
           ELSE SubSeq(text, first, CHOOSE j \in closes : \A c \in closes : c <= j)

\* JSON.parse of a text that starts with "[": ok is FALSE where it throws;
\* value lists the elements of the outermost array (a nested array counts
\* as one element that is no cluster object).
RECURSIVE JsonScan(_, _, _, _)
JsonScan(m, i, depth, acc) ==
  IF i > Len(m) THEN [ok |-> depth = 0, value |-> acc]
  ELSE IF m[i].k = "["
       THEN IF i > 1 /\ depth = 0 THEN [ok |-> FALSE, value |-> <<>>]
            ELSE JsonScan(m, i + 1, depth + 1, IF depth = 1 THEN Append(acc, Tok("num")) ELSE acc)
  ELSE IF m[i].k = "]"
       THEN IF depth = 0 THEN [ok |-> FALSE, value |-> <<>>]
            ELSE JsonScan(m, i + 1, depth - 1, acc)
  ELSE IF m[i].k = "junk" \/ depth = 0 THEN [ok |-> FALSE, value |-> <<>>]
  ELSE JsonScan(m, i + 1, depth, IF depth = 1 THEN Append(acc, m[i]) ELSE acc)

JsonParse(m) == JsonScan(m, 1, 0, <<>>)

\* The single topic made for a whole batch.
FallbackCluster(id, batchIndex, transcripts) ==
  [NoFields EXCEPT !.id = id,
                   !.title = <<TitlePart("Conversations (Part", batchIndex + 1)>>,
                   !.category = "General",
                   !.summary = <<"Grouped conversations from this time period">>,
                   !.sections = <<>>,
                   !.hasIds = TRUE,
                   !.transcriptIds = BatchIds(transcripts),
                   !.startTime = transcripts[1].date,
                   !.endTime = transcripts[Len(transcripts)].date]

\* parsed.map((topic, idx) => ({ ...topic, id: `batch${batchIndex}_topic_${idx + 1}` }))
PrefixIds(parsed, batchIndex) ==
  [idx \in DOMAIN parsed |->
     [parsed[idx].v EXCEPT !.id = ClusterId("batch_topic", batchIndex, idx)]]

\* The lines after the completion call: match, parse, accept or fall back.
\* thrown is TRUE where an exception leaves the function.
InterpretBatch(text, transcripts, batchIndex) ==
  LET m == JsonMatch(text)
      p == JsonParse(m)
  IN  IF m # NoMatch /\ p.ok /\ Len(p.value) > 0
      THEN [thrown |-> FALSE, topics |-> PrefixIds(p.value, batchIndex)]
      ELSE [thrown |-> FALSE,
            topics |-> <<FallbackCluster(ClusterId("batch_topic", batchIndex, 1),
                                         batchIndex, transcripts)>>]

\* processBatch of the on-demand route: the completion call is inside the try.
processBatch(response, transcripts, batchIndex) ==
  IF response.throws
  THEN [thrown |-> FALSE,
        topics |-> <<FallbackCluster(ClusterId("batch_topic", batchIndex, 1),
                                     batchIndex, transcripts)>>]
  ELSE InterpretBatch(response.text, transcripts, batchIndex)

\* processBatch of the scheduled job: generateSummary is called before the try.
cronProcessBatch(response, transcripts, batchIndex) ==
  IF response.throws
  THEN [thrown |-> TRUE, topics |-> <<>>]
  ELSE InterpretBatch(response.text, transcripts, batchIndex)

\* The parse of the first scheduled job (one completion call for the day):
\* topics stays [] without a match, the catch makes 'Daily Conversations'.
cronParseV1(text, transcripts) ==
  LET m == JsonMatch(text)
      p == JsonParse(m)
  IN  IF m = NoMatch THEN <<>>
      ELSE IF p.ok THEN [i \in DOMAIN p.value |-> p.value[i].v]
      ELSE <<[NoFields EXCEPT !.id = ClusterId("topic", 1, 0),
                              !.title = <<TitlePart("Daily Conversations", 0)>>,
                              !.category = "General",
                              !.summary = <<"Various conversations throughout the day">>,
                              !.sections = <<>>,
                              !.hasIds = TRUE,
                              !.transcriptIds = BatchIds(transcripts),
                              !.startTime = transcripts[1].date,
                              !.endTime = transcripts[Len(transcripts)].date]>>

\* topics.map(topic => ({ ...topic, transcripts: transcriptions.filter(t =>
\* topic.transcriptIds.includes(t.id)) })): throws a TypeError where a topic
\* has no transcriptIds.
EnrichThrows(list) == \E i \in DOMAIN list : ~list[i].hasIds

Enrich(list, rows) ==
  [i \in DOMAIN list |->
     [list[i] EXCEPT !.enriched = TRUE,
                     !.transcripts = SelectSeq(rows,
                                        LAMBDA t : t.id \in Range(list[i].transcriptIds))]]

\* What one completion call was answered and what the caller made of it.
Interpreted(who, kind, batch, batchIndex, thrown, made) ==
  [who |-> who, kind |-> kind, batch |-> BatchIds(batch), batchIndex |-> batchIndex,
   thrown |-> thrown, topics |-> made]

NoCall == [who |-> "none", kind |-> "none", batch |-> <<>>, batchIndex |-> 0,
           thrown |-> FALSE, topics |-> <<>>]

\* ------------------------------------------------------- cluster store
NoRecord == [exists |-> FALSE, topics |-> <<>>, transcription_count |-> 0, updated_at |-> 0]

\* The same call with ignoreDuplicates: a record that exists is kept.
UpsertIgnoreDuplicates(list, count, at) ==
  IF stored.exists THEN stored
  ELSE [exists |-> TRUE, topics |-> list, transcription_count |-> count, updated_at |-> at]

\* supabase.from('topic_clusters').upsert({...}, { onConflict: 'user_id,cluster_date' })
Upsert(list, count, at) ==
  [exists |-> TRUE, topics |-> list, transcription_count |-> count, updated_at |-> at]

\* Who wrote the record last: the writer, the page handler it served, the
\* topics the record held when that handler began, the topics it put and
\* the topics the record held just before.
Put(writer, op, atStart, value) ==
  [writer |-> writer, op |-> op, atStart |-> atStart, value |-> value,
   replaced |-> stored.topics]
NoPut == [writer |-> "none", op |-> "none", atStart |-> <<>>, value |-> <<>>, replaced |-> <<>>]

\* --------------------------------------------------- the on-demand route
\* Clustering runs (route calls, scheduled runs) and page operations allowed
\* in one behaviour.
MaxRuns == 2
\* The clock advances in steps of the freshness window, MaxTicks times.
MaxTicks == 1
\* hourAgo = new Date(Date.now() - 60 * 60 * 1000), in minutes
FreshMinutes == 60

Idle ==
  [pc |-> "idle", hasDate |-> FALSE, hasIds |-> FALSE, ids |-> {}, transcriptions |-> <<>>,
   single |-> FALSE, batches |-> <<>>, i |-> 0, allTopics |-> <<>>, calls |-> 0,
   status |-> 0, topics |-> <<>>, upsertError |-> FALSE]

\* Request bodies: { date }, { date, transcriptIds }, { transcriptIds }, {}.
Body(hasDate, hasIds, ids) == [hasDate |-> hasDate, hasIds |-> hasIds, ids |-> ids]

\* The rows the query returns: .in('id', transcriptIds) for a non-empty
\* list, else the day of date, else every row of the owner.
QueryRows(body, n) ==
  IF body.hasIds /\ body.ids # {}
  THEN SelectSeq(UserTranscripts(n), LAMBDA t : t.id \in body.ids)
  ELSE IF body.hasDate THEN DayTranscripts(n)
  ELSE UserTranscripts(n)

\* POST up to the first completion call: the body check, the query, the
\* empty answer, the choice between one shot and batches.
RouteBegin(body, n, queryError) ==
  IF ~body.hasDate /\ ~body.hasIds
  THEN [Idle EXCEPT !.pc = "done", !.status = 400]
  ELSE IF queryError
  THEN [Idle EXCEPT !.pc = "done", !.status = 500, !.hasDate = body.hasDate,
                    !.hasIds = body.hasIds, !.ids = body.ids]
  ELSE LET rows == QueryRows(body, n) IN
       IF Len(rows) = 0
       THEN [Idle EXCEPT !.pc = "done", !.status = 200, !.hasDate = body.hasDate,
                         !.hasIds = body.hasIds, !.ids = body.ids]
       ELSE [Idle EXCEPT !.pc = "batch", !.hasDate = body.hasDate, !.hasIds = body.hasIds,
                         !.ids = body.ids, !.transcriptions = rows,
                         !.single = (Len(rows) <= MAX_BATCH_SIZE),
                         !.batches = IF Len(rows) <= MAX_BATCH_SIZE
                                     THEN <<rows>>
                                     ELSE createBatches(groupByTimeProximity(rows))]

\* The catch of the batch loop: a topic "batch{i}_fallback" for the batch.
LoopFallback(i, batch) == <<FallbackCluster(ClusterId("batch_fallback", i, 0), i, batch)>>

\* allTopics.unshift(...batchTopics) in place of the push.
AccumulateInFront(allTopics, batchTopics) == batchTopics \o allTopics

\* allTopics.push(...batchTopics)
Accumulate(allTopics, batchTopics) == allTopics \o batchTopics

\* One completion call and what the route makes of it (batch i, 0-based).
RouteBatch ==
  /\ route.pc = "batch"
  /\ \E kind \in gatewayKinds :
       LET batch == route.batches[route.i + 1]
           r     == processBatch(GatewayResponse(kind, batch), batch, route.i)
           got   == IF r.thrown THEN LoopFallback(route.i, batch) ELSE r.topics
       IN  /\ route' = [route EXCEPT !.allTopics = Accumulate(@, got),
                                     !.i = @ + 1,
                                     !.calls = @ + 1,
                                     !.pc = IF route.i + 1 = Len(route.batches)
                                            THEN "save" ELSE "batch"]
           /\ interp' = Interpreted("route", kind, batch, route.i, r.thrown, got)
  /\ UNCHANGED <<dbIds, stored, lastPut, now, gatewayKinds, runsLeft, cronResult, planVars, pageVars>>

\* The upsert (when the body has a date; the error it returns is not looked
\* at: upsertError keeps it), then the enrichment and the response.
RouteSave ==
  /\ route.pc = "save"
  /\ \E upsertOk \in BOOLEAN :
       /\ IF route.hasDate /\ upsertOk
          THEN /\ stored' = Upsert(route.allTopics, Len(route.transcriptions), now)
               /\ lastPut' = Put("route", pending.handler, pending.stored, route.allTopics)
          ELSE UNCHANGED <<stored, lastPut>>
       /\ route' = IF EnrichThrows(route.allTopics)
                   THEN [route EXCEPT !.pc = "done", !.status = 500,
                                      !.upsertError = route.hasDate /\ ~upsertOk]
                   ELSE [route EXCEPT !.pc = "done", !.status = 200,
                                      !.upsertError = route.hasDate /\ ~upsertOk,
                                      !.topics = Enrich(route.allTopics, route.transcriptions)]
  /\ UNCHANGED <<dbIds, now, gatewayKinds, runsLeft, cronResult, interp, planVars, pageVars>>

\* ------------------------------------------------------ scheduled jobs
\* The same test with lastUpdate >= hourAgo.
IsFreshInclusive(existing, count, at) ==
  /\ existing.exists
  /\ existing.updated_at >= at - FreshMinutes
  /\ existing.transcription_count = count

\* lastUpdate > hourAgo && transcription_count === transcriptions.length
IsFresh(existing, count, at) ==
  /\ existing.exists
  /\ existing.updated_at > at - FreshMinutes
  /\ existing.transcription_count = count

\* The first scheduled job: one completion call for the whole day.
CronV1Run ==
  /\ runsLeft > 0
  /\ dbIds # {}
  /\ runsLeft' = runsLeft - 1
  /\ LET rows == DayTranscripts(dbIds) IN
     IF IsFresh(stored, Len(rows), now)
     THEN /\ cronResult' = [job |-> "v1", status |-> "skipped", calls |-> 0]
          /\ UNCHANGED <<stored, lastPut, interp>>
     ELSE \E kind \in gatewayKinds :
            LET response == GatewayResponse(kind, rows)
                parsed   == cronParseV1(response.text, rows)
            IN  /\ interp' = Interpreted("cronV1", kind, rows, 0, response.throws,
                                         IF response.throws THEN <<>> ELSE parsed)
                /\ IF response.throws \/ EnrichThrows(parsed)
                   THEN /\ cronResult' = [job |-> "v1", status |-> "error", calls |-> 1]
                        /\ UNCHANGED <<stored, lastPut>>
                   ELSE /\ stored' = Upsert(Enrich(parsed, rows), Len(rows), now)
                        /\ lastPut' = Put("cronV1", "none", <<>>, Enrich(parsed, rows))
                        /\ cronResult' = [job |-> "v1", status |-> "success", calls |-> 1]
  /\ UNCHANGED <<dbIds, now, gatewayKinds, route, planVars, pageVars>>

\* The batch loop of the batched scheduled job, from batch i (0-based) on;
\* kinds[i + 1] is the service's answer for batch i.
RECURSIVE CronLoop(_, _, _, _)
CronLoop(batches, kinds, i, allTopics) ==
  IF i >= Len(batches) THEN allTopics
  ELSE LET batch == batches[i + 1]
           r     == cronProcessBatch(GatewayResponse(kinds[i + 1], batch), batch, i)
       IN  CronLoop(batches, kinds, i + 1,
                    allTopics \o (IF r.thrown THEN LoopFallback(i, batch) ELSE r.topics))

\* The batched scheduled job.
CronRun ==
  /\ runsLeft > 0
  /\ dbIds # {}
  /\ runsLeft' = runsLeft - 1
  /\ LET rows == DayTranscripts(dbIds) IN
     IF IsFresh(stored, Len(rows), now)
     THEN /\ cronResult' = [job |-> "batched", status |-> "skipped", calls |-> 0]
          /\ UNCHANGED <<stored, lastPut, interp>>
     ELSE IF Len(rows) <= MAX_BATCH_SIZE
     THEN \E kind \in gatewayKinds :
            LET r == cronProcessBatch(GatewayResponse(kind, rows), rows, 0) IN
            /\ interp' = Interpreted("cron", kind, rows, 0, r.thrown, r.topics)
            /\ IF r.thrown \/ EnrichThrows(r.topics)
               THEN /\ cronResult' = [job |-> "batched", status |-> "error", calls |-> 1]
                    /\ UNCHANGED <<stored, lastPut>>
               ELSE /\ stored' = Upsert(Enrich(r.topics, rows), Len(rows), now)
                    /\ lastPut' = Put("cron", "none", <<>>, Enrich(r.topics, rows))
                    /\ cronResult' = [job |-> "batched", status |-> "success", calls |-> 1]
     ELSE LET batches == createBatches(groupByTimeProximity(rows)) IN
          \E kinds \in [1..Len(batches) -> gatewayKinds] :
            LET allTopics == CronLoop(batches, kinds, 0, <<>>)
                last      == Len(batches)
                r         == cronProcessBatch(GatewayResponse(kinds[last], batches[last]),
                                              batches[last], last - 1)
            IN
            /\ interp' = Interpreted("cron", kinds[last], batches[last], last - 1, FALSE,
                                     IF r.thrown THEN LoopFallback(last - 1, batches[last])
                                     ELSE r.topics)
            /\ IF EnrichThrows(allTopics)
               THEN /\ cronResult' = [job |-> "batched", status |-> "error", calls |-> last]
                    /\ UNCHANGED <<stored, lastPut>>
               ELSE /\ stored' = Upsert(Enrich(allTopics, rows), Len(rows), now)
                    /\ lastPut' = Put("cron", "none", <<>>, Enrich(allTopics, rows))
                    /\ cronResult' = [job |-> "batched", status |-> "success", calls |-> last]
  /\ UNCHANGED <<dbIds, now, gatewayKinds, route, planVars, pageVars>>

\* Time passes.
Tick ==
  /\ now < MaxTicks * FreshMinutes
  /\ now' = now + FreshMinutes
  /\ UNCHANGED <<dbIds, stored, lastPut, gatewayKinds, runsLeft, route, cronResult, interp, planVars, pageVars>>

\* ---------------------------------------------------------------- the page
\* Clicks allowed in one behaviour.
MaxOps == 3

Reverse(s) == [i \in DOMAIN s |-> s[Len(s) + 1 - i]]

\* list.sort((a, b) => new Date(b[field]).getTime() - new Date(a[field]).getTime()):
\* descending, and stable, so equal keys keep their order.
InsertDescBy(sorted, x, field) ==
  LET k == Cardinality({i \in DOMAIN sorted : GetTime(sorted[i][field]) >= GetTime(x[field])})
  IN  SubSeq(sorted, 1, k) \o <<x>> \o SubSeq(sorted, k + 1, Len(sorted))

RECURSIVE SortDescFrom(_, _, _)
SortDescFrom(list, sorted, field) ==
  IF list = <<>> THEN sorted
  ELSE SortDescFrom(Tail(list), InsertDescBy(sorted, Head(list), field), field)

SortDescBy(list, field) == SortDescFrom(list, <<>>, field)

\* loadData's join: transcriptIds.map(id => transcriptionMap.get(id)).filter(defined)
PageEnrich(storedTopics, loaded) ==
  [i \in DOMAIN storedTopics |->
     LET kept == SelectSeq(storedTopics[i].transcriptIds,
                           LAMBDA id : \E k \in DOMAIN loaded : loaded[k].id = id)
     IN  [storedTopics[i] EXCEPT !.enriched = TRUE,
                                 !.transcripts = [k \in DOMAIN kept |-> Transcript(kept[k])]]]

\* newTopics.map(({ transcripts, ...rest }) => rest)
TopicsForStorage(newTopics) ==
  [i \in DOMAIN newTopics |-> [newTopics[i] EXCEPT !.enriched = FALSE, !.transcripts = <<>>]]

\* topics.flatMap(t => t.transcriptIds), as a set
ClusteredIds(list) == UNION {Range(list[i].transcriptIds) : i \in DOMAIN list}

\* The unclusteredTranscripts memo.
UnclusteredOf(list, rows, trashed) ==
  IF Len(list) = 0 THEN <<>>
  ELSE SortDescBy(SelectSeq(rows, LAMBDA t : t.id \notin ClusteredIds(list) /\ t.id \notin trashed),
                  "date")

unclusteredTranscripts == UnclusteredOf(topics, transcriptions, trashedIds)

\* No fetch is awaited.
NoPending == [handler |-> "none", topics |-> <<>>, stored |-> <<>>, aborted |-> FALSE]

\* The page shows its controls.
PageShown == ~loading /\ Len(transcriptions) > 0
TopicsShown == PageShown /\ viewMode = "topics" /\ Len(topics) > 0

\* What was invoked last, and how many unclustered transcripts the page
\* showed then.
Invoked(handler, unclustered) == [handler |-> handler, unclustered |-> Len(unclustered)]

\* One click: handler is what it invokes.
Click(handler) ==
  /\ opsLeft > 0
  /\ opsLeft' = opsLeft - 1
  /\ invoked' = Invoked(handler, unclusteredTranscripts)

\* setClustering(true); setClusterError(null); fetch('/api/clustering/topics', body):
\* closureTopics is the topics state the handler's closure holds.
StartFetch(handler, body, closureTopics) ==
  /\ pending.handler = "none"
  /\ clustering' = TRUE
  /\ clusterError' = "null"
  /\ pending' = [handler |-> handler, topics |-> closureTopics, stored |-> stored.topics,
                 aborted |-> FALSE]
  /\ \E queryError \in BOOLEAN : route' = RouteBegin(body, dbIds, queryError)

\* A saveTopics that removes the record when no topic is left.
SaveTopicsRemovingEmpty(newTopics, count, handler) ==
  \E upsertOk \in BOOLEAN :
    IF upsertOk
    THEN /\ stored' = IF newTopics = <<>> THEN NoRecord
                      ELSE Upsert(TopicsForStorage(newTopics), count, now)
         /\ lastPut' = Put("page", handler, IF pending.handler = handler
                                            THEN pending.stored ELSE stored.topics,
                         TopicsForStorage(newTopics))
    ELSE UNCHANGED <<stored, lastPut>>

\* saveTopics: the upsert's error is not looked at.
SaveTopics(newTopics, count, handler) ==
  \E upsertOk \in BOOLEAN :
    IF upsertOk
    THEN /\ stored' = Upsert(TopicsForStorage(newTopics), count, now)
         /\ lastPut' = Put("page", handler, IF pending.handler = handler
                                            THEN pending.stored ELSE stored.topics,
                         TopicsForStorage(newTopics))
    ELSE UNCHANGED <<stored, lastPut>>

\* The page mounts: loadData, then the auto-cluster effect of the render
\* that follows setLoading(false).
LoadData ==
  /\ loading
  /\ loading' = FALSE
  /\ invoked' = Invoked("loadData", <<>>)
  /\ \E transcriptionsError \in BOOLEAN :
       LET rows     == IF transcriptionsError THEN transcriptions
                       ELSE Reverse(DayTranscripts(dbIds))
           joined   == ~transcriptionsError /\ stored.exists /\ ~EnrichThrows(stored.topics)
           loaded   == IF joined THEN SortDescBy(PageEnrich(stored.topics, rows), "startTime")
                       ELSE topics
           mode     == IF joined THEN "topics" ELSE viewMode
       IN  /\ transcriptions' = rows
           /\ topics' = loaded
           /\ viewMode' = mode
           /\ IF Len(rows) > 0 /\ Len(loaded) = 0 /\ ~clustering /\ mode = "list"
              THEN StartFetch("handleClusterTopics", Body(TRUE, FALSE, {}), loaded)
              ELSE UNCHANGED <<clustering, clusterError, pending, route>>
  /\ UNCHANGED <<dbIds, stored, lastPut, now, gatewayKinds, runsLeft, cronResult, interp,
                 selectedTopics, selectedTranscripts, trashedIds, opsLeft, planVars>>

\* "Cluster by Topic", shown when there is no topic.
HandleClusterTopics ==
  /\ PageShown /\ ~clustering
  /\ Len(topics) = 0 /\ Len(unclusteredTranscripts) = 0
  /\ Click("handleClusterTopics")
  /\ StartFetch("handleClusterTopics", Body(TRUE, FALSE, {}), topics)
  /\ UNCHANGED <<dbIds, stored, lastPut, now, gatewayKinds, runsLeft, cronResult, interp,
                 transcriptions, topics, loading, viewMode, selectedTopics,
                 selectedTranscripts, trashedIds, planVars>>

\* if (unclusteredTranscripts.length === 0) return;
ClusterNewReturnsEarlyNever(unclustered) == FALSE

ClusterNewReturnsEarly(unclustered) == Len(unclustered) = 0

\* "Cluster All (n)", rendered when there are unclustered transcripts and
\* none is ticked; the handler itself returns at once when there is none.
HandleClusterNew ==
  /\ PageShown /\ ~clustering
  /\ \/ Len(unclusteredTranscripts) > 0 /\ selectedTranscripts = {}
     \/ Len(unclusteredTranscripts) = 0
  /\ Click("handleClusterNew")
  /\ IF ClusterNewReturnsEarly(unclusteredTranscripts)
     THEN UNCHANGED <<clustering, clusterError, pending, route>>
     ELSE StartFetch("handleClusterNew",
                     Body(TRUE, TRUE, Range(BatchIds(unclusteredTranscripts))), topics)
  /\ UNCHANGED <<dbIds, stored, lastPut, now, gatewayKinds, runsLeft, cronResult, interp,
                 transcriptions, topics, loading, viewMode, selectedTopics,
                 selectedTranscripts, trashedIds, planVars>>

\* "Cluster Selected (n)", shown when a transcript is ticked.
HandleClusterSelected ==
  /\ PageShown /\ ~clustering
  /\ selectedTranscripts # {}
  /\ Click("handleClusterSelected")
  /\ StartFetch("handleClusterSelected", Body(TRUE, TRUE, selectedTranscripts), topics)
  /\ UNCHANGED <<dbIds, stored, lastPut, now, gatewayKinds, runsLeft, cronResult, interp,
                 transcriptions, topics, loading, viewMode, selectedTopics,
                 selectedTranscripts, trashedIds, planVars>>

\* "Re-cluster All", shown when there are topics and nothing is ticked; the
\* user may decline the confirmation.
HandleReclusterAll ==
  /\ PageShown /\ ~clustering
  /\ Len(topics) > 0 /\ selectedTopics = {} /\ selectedTranscripts = {}
  /\ Click("handleReclusterAll")
  /\ \E confirmed \in BOOLEAN :
       IF ~confirmed
       THEN UNCHANGED <<topics, clustering, clusterError, pending, route>>
       ELSE /\ topics' = <<>>
            /\ StartFetch("handleReclusterAll", Body(TRUE, FALSE, {}), <<>>)
  /\ UNCHANGED <<dbIds, stored, lastPut, now, gatewayKinds, runsLeft, cronResult, interp,
                 transcriptions, loading, viewMode, selectedTopics, selectedTranscripts,
                 trashedIds, planVars>>

\* The tick box of an unclustered transcript.
ToggleTranscriptSelection ==
  /\ TopicsShown
  /\ \E t \in Range(unclusteredTranscripts) :
       selectedTranscripts' = IF t.id \in selectedTranscripts
                              THEN selectedTranscripts \ {t.id}
                              ELSE selectedTranscripts \cup {t.id}
  /\ Click("toggleTranscriptSelection")
  /\ UNCHANGED <<sysVars, transcriptions, topics, loading, clustering, clusterError, viewMode,
                 selectedTopics, trashedIds, pending, planVars>>

\* catch (error): error.name === 'AbortError' gives the timed-out message,
\* any other error its own message.
CatchMessageGeneric(name, message) == message

CatchMessage(name, message) ==
  IF name = "AbortError" THEN "Request timed out" ELSE message

\* setTimeout(() => controller.abort(), 300000) fires before the fetch
\* resolved: the fetch rejects with an AbortError, the handler's catch and
\* finally run, and the invocation at the server goes on. MaxOps bounds the
\* timers that fire together with the clicks.
FetchTimeout ==
  /\ pending.handler # "none"
  /\ ~pending.aborted
  /\ opsLeft > 0
  /\ opsLeft' = opsLeft - 1
  /\ clusterError' = CatchMessage("AbortError", "The operation was aborted")
  /\ clustering' = FALSE
  /\ pending' = [pending EXCEPT !.aborted = TRUE]
  /\ UNCHANGED <<sysVars, transcriptions, topics, loading, viewMode, selectedTopics,
                 selectedTranscripts, trashedIds, invoked, planVars>>

\* The response to an aborted fetch: nobody reads it.
AbortedResponse ==
  /\ pending.aborted
  /\ route.pc = "done"
  /\ pending' = NoPending
  /\ route' = Idle
  /\ UNCHANGED <<dbIds, stored, lastPut, now, gatewayKinds, runsLeft, cronResult, interp,
                 transcriptions, topics, loading, clustering, clusterError, viewMode,
                 selectedTopics, selectedTranscripts, trashedIds, invoked, opsLeft, planVars>>

\* The fetch of the awaiting handler resolved: the rest of its try block,
\* its catch and its finally.
PageReceive ==
  /\ pending.handler # "none"
  /\ ~pending.aborted
  /\ route.pc = "done"
  /\ LET ok     == route.status = 200
         data   == route.topics
         merged == SortDescBy(pending.topics \o data, "startTime")
     IN  IF pending.handler \in {"handleClusterTopics", "handleReclusterAll"}
         THEN /\ topics' = IF ok /\ Len(data) > 0 THEN SortDescBy(data, "startTime") ELSE topics
              /\ viewMode' = IF ok /\ Len(data) > 0 THEN "topics" ELSE viewMode
              /\ clusterError' = IF ~ok THEN CatchMessage("Error", "Server error")
                                 ELSE IF Len(data) = 0 /\ pending.handler = "handleClusterTopics"
                                 THEN "No topics could be identified"
                                 ELSE clusterError
              /\ UNCHANGED <<selectedTranscripts, stored, lastPut>>
         ELSE /\ topics' = IF ok /\ Len(data) > 0 THEN merged ELSE topics
              /\ selectedTranscripts' =
                   IF ok /\ Len(data) > 0 /\ pending.handler = "handleClusterSelected"
                   THEN {} ELSE selectedTranscripts
              /\ clusterError' = IF ~ok THEN CatchMessage("Error", "Server error") ELSE clusterError
              /\ IF ok /\ Len(data) > 0
                 THEN SaveTopics(merged, Len(transcriptions), pending.handler)
                 ELSE UNCHANGED <<stored, lastPut>>
              /\ UNCHANGED viewMode
  /\ clustering' = FALSE
  /\ pending' = NoPending
  /\ route' = Idle
  /\ UNCHANGED <<dbIds, now, gatewayKinds, runsLeft, cronResult, interp, transcriptions, loading,
                 selectedTopics, trashedIds, invoked, opsLeft, planVars>>

TopicIds(list) == {list[i].id : i \in DOMAIN list}

\* The tick box of a topic.
ToggleTopicSelection ==
  /\ TopicsShown
  /\ \E topicId \in TopicIds(topics) :
       selectedTopics' = IF topicId \in selectedTopics
                         THEN selectedTopics \ {topicId}
                         ELSE selectedTopics \cup {topicId}
  /\ Click("toggleTopicSelection")
  /\ UNCHANGED <<sysVars, transcriptions, topics, loading, clustering, clusterError, viewMode,
                 selectedTranscripts, trashedIds, pending, planVars>>

\* The delete button of a topic.
HandleDeleteTopic ==
  /\ TopicsShown
  /\ \E topicId \in TopicIds(topics) :
       LET newTopics == SelectSeq(topics, LAMBDA t : t.id # topicId) IN
       /\ topics' = newTopics
       /\ selectedTopics' = selectedTopics \ {topicId}
       /\ SaveTopics(newTopics, Len(transcriptions), "handleDeleteTopic")
  /\ Click("handleDeleteTopic")
  /\ UNCHANGED <<dbIds, now, gatewayKinds, runsLeft, route, cronResult, interp, transcriptions,
                 loading, clustering, clusterError, viewMode, selectedTranscripts, trashedIds,
                 pending, planVars>>

\* The title typed, trimmed.
EditedTitle == <<TitlePart("edited", 0)>>

\* Enter or the save button of the title editor; a blank title changes nothing.
SaveTopicTitle ==
  /\ TopicsShown
  /\ \E topicId \in TopicIds(topics), blank \in BOOLEAN :
       IF blank THEN UNCHANGED <<topics, stored, lastPut>>
       ELSE LET newTopics == [i \in DOMAIN topics |->
                                IF topics[i].id = topicId
                                THEN [topics[i] EXCEPT !.title = EditedTitle] ELSE topics[i]]
            IN  /\ topics' = newTopics
                /\ SaveTopics(newTopics, Len(transcriptions), "saveTopicTitle")
  /\ Click("saveTopicTitle")
  /\ UNCHANGED <<dbIds, now, gatewayKinds, runsLeft, route, cronResult, interp, transcriptions,
                 loading, clustering, clusterError, viewMode, selectedTopics,
                 selectedTranscripts, trashedIds, pending, planVars>>

\* allTranscriptIds kept as it is, without the Set.
DedupeKeepAll(ids) == ids

\* Array.from(new Set(ids)): the first occurrence of each id, in order.
RECURSIVE Dedupe(_)
Dedupe(ids) ==
  IF ids = <<>> THEN <<>>
  ELSE LET front == Dedupe(SubSeq(ids, 1, Len(ids) - 1))
           x     == ids[Len(ids)]
       IN  IF x \in Range(front) THEN front ELSE Append(front, x)

\* Date.now() at a click: later at each later click.
ClickTime == MaxOps - opsLeft

\* The topic handleMergeTopics builds from the topics ticked.
MergedTopic(toMerge, at) ==
  LET allTranscripts    == SortByDate(Flatten([i \in DOMAIN toMerge |-> toMerge[i].transcripts]))
      allTranscriptIds  == Flatten([i \in DOMAIN toMerge |-> toMerge[i].transcriptIds])
  IN  [NoFields EXCEPT
         !.id = ClusterId("merged", at, 0),
         !.title = Flatten([i \in DOMAIN toMerge |-> toMerge[i].title]),
         !.category = toMerge[1].category,
         !.summary = Flatten([i \in DOMAIN toMerge |-> toMerge[i].summary]),
         !.sections = Flatten([i \in DOMAIN toMerge |-> toMerge[i].sections]),
         !.hasIds = TRUE,
         !.transcriptIds = Dedupe(allTranscriptIds),
         !.enriched = TRUE,
         !.transcripts = allTranscripts,
         !.startTime = IF Len(allTranscripts) > 0 THEN allTranscripts[1].date
                       ELSE toMerge[1].startTime,
         !.endTime = IF Len(allTranscripts) > 0 THEN allTranscripts[Len(allTranscripts)].date
                     ELSE toMerge[Len(toMerge)].endTime]

\* "Merge (n)", shown when two or more topics are ticked; the user may
\* decline the confirmation. With no ticked topic left in topics,
\* toMerge[0].category throws and nothing is set or saved.
HandleMergeTopics ==
  /\ PageShown
  /\ Cardinality(selectedTopics) >= 2
  /\ \E confirmed \in BOOLEAN :
       LET toMerge   == SelectSeq(topics, LAMBDA t : t.id \in selectedTopics)
           remaining == SelectSeq(topics, LAMBDA t : t.id \notin selectedTopics)
       IN  IF ~confirmed \/ Len(toMerge) = 0
           THEN UNCHANGED <<topics, selectedTopics, stored, lastPut>>
           ELSE LET newTopics == SortDescBy(Append(remaining, MergedTopic(toMerge, ClickTime)),
                                            "startTime")
                IN  /\ topics' = newTopics
                    /\ selectedTopics' = {}
                    /\ SaveTopics(newTopics, Len(transcriptions), "handleMergeTopics")
  /\ Click("handleMergeTopics")
  /\ UNCHANGED <<dbIds, now, gatewayKinds, runsLeft, route, cronResult, interp, transcriptions,
                 loading, clustering, clusterError, viewMode, selectedTranscripts, trashedIds,
                 pending, planVars>>

\* The trash button of an unclustered transcript.
HandleDeleteTranscript ==
  /\ TopicsShown
  /\ \E t \in Range(unclusteredTranscripts) :
       /\ trashedIds' = trashedIds \cup {t.id}
       /\ selectedTranscripts' = selectedTranscripts \ {t.id}
  /\ Click("handleDeleteTranscript")
  /\ UNCHANGED <<sysVars, transcriptions, topics, loading, clustering, clusterError, viewMode,
                 selectedTopics, pending, planVars>>

\* ------------------------------- specification: clustering runs, no page
\* Any caller of POST /api/clustering/topics.
RunBodies ==
  {Body(TRUE, FALSE, {}), Body(FALSE, FALSE, {})}
    \cup {Body(d, TRUE, S) : d \in BOOLEAN, S \in SUBSET Ids}

CallRoute ==
  /\ runsLeft > 0
  /\ route.pc = "idle"
  /\ runsLeft' = runsLeft - 1
  /\ \E body \in RunBodies, queryError \in BOOLEAN :
       route' = RouteBegin(body, dbIds, queryError)
  /\ UNCHANGED <<dbIds, stored, lastPut, now, gatewayKinds, cronResult, interp, planVars, pageVars>>

\* The caller takes the response.
CallerReceive ==
  /\ route.pc = "done"
  /\ route' = Idle
  /\ UNCHANGED <<dbIds, stored, lastPut, now, gatewayKinds, runsLeft, cronResult, interp, planVars, pageVars>>

InitEngine ==
  /\ lastPut = NoPut
  /\ now = 0
  /\ runsLeft = MaxRuns
  /\ route = Idle
  /\ cronResult = [job |-> "none", status |-> "none", calls |-> 0]
  /\ interp = NoCall

InitSys ==
  /\ InitEngine
  /\ stored = NoRecord

InitPage ==
  /\ transcriptions = <<>>
  /\ topics = <<>>
  /\ loading = TRUE
  /\ clustering = FALSE
  /\ clusterError = "null"
  /\ viewMode = "list"
  /\ selectedTopics = {}
  /\ selectedTranscripts = {}
  /\ trashedIds = {}
  /\ pending = NoPending
  /\ invoked = Invoked("none", <<>>)
  /\ opsLeft = MaxOps

InitPlanIdle ==
  /\ planInput = <<>>
  /\ planPerm = <<>>
  /\ planGroups = <<>>
  /\ planGroupsPerm = <<>>
  /\ planSegs = <<>>
  /\ planBatches = <<>>
  /\ planPc = "idle"

InitRuns ==
  /\ InitSys
  /\ InitPlanIdle
  /\ InitPage
  /\ dbIds \in {1..n : n \in 0..NumTranscripts}
  /\ gatewayKinds \in GatewayProfiles

NextRuns ==
  \/ CallRoute
  \/ RouteBatch
  \/ RouteSave
  \/ CallerReceive
  \/ CronV1Run
  \/ CronRun
  \/ Tick


SpecRuns == InitRuns /\ [][NextRuns]_vars

\* ------------------------------------ specification: the page and the route
\* The record an earlier run left when the date had its first two
\* transcripts only.
EarlierRecord ==
  LET rows == RowsOf({1, 2})
  IN  [exists |-> TRUE, topics |-> processBatch(GatewayResponse("one", rows), rows, 0).topics,
       transcription_count |-> Len(rows), updated_at |-> 0]

Init ==
  /\ InitEngine
  /\ InitPlanIdle
  /\ InitPage
  /\ dbIds = Ids
  /\ stored \in {NoRecord, EarlierRecord}
  /\ gatewayKinds \in GatewayProfiles

Next ==
  \/ LoadData
  \/ HandleClusterTopics
  \/ HandleClusterNew
  \/ HandleClusterSelected
  \/ ToggleTranscriptSelection
  \/ ToggleTopicSelection
  \/ HandleDeleteTopic
  \/ SaveTopicTitle
  \/ HandleMergeTopics
  \/ HandleDeleteTranscript
  \/ PageReceive
  \/ FetchTimeout
  \/ AbortedResponse
  \/ RouteBatch
  \/ RouteSave

Spec == Init /\ [][Next]_vars

\* ------------------------------- specification: re-cluster all and delete
\* The record an earlier session left after it merged the two clusters of
\* the date's first two transcripts.
MergedRecord ==
  LET rows == RowsOf({1, 2})
      made == Enrich(processBatch(GatewayResponse("split", rows), rows, 0).topics, rows)
  IN  [exists |-> TRUE, topics |-> TopicsForStorage(<<MergedTopic(made, 1)>>),
       transcription_count |-> Len(rows), updated_at |-> 0]

InitRecluster ==
  /\ InitEngine
  /\ InitPlanIdle
  /\ InitPage
  /\ dbIds = Ids
  /\ stored \in {NoRecord, EarlierRecord, MergedRecord}
  /\ gatewayKinds \in GatewayProfiles

NextRecluster ==
  \/ LoadData
  \/ HandleReclusterAll
  \/ HandleDeleteTopic
  \/ PageReceive
  \/ FetchTimeout
  \/ AbortedResponse
  \/ RouteBatch
  \/ RouteSave

SpecRecluster == InitRecluster /\ [][NextRecluster]_vars

\* ------------------------------------------- specification: the segmenter
InitSegmenter ==
  /\ planInput \in PlanInputs
  /\ planPerm = <<>>
  /\ planGroups = <<>>
  /\ planGroupsPerm = <<>>
  /\ planSegs = <<>>
  /\ planBatches = <<>>
  /\ planPc = "input"
  /\ InitSys
  /\ InitPage
  /\ dbIds = {}
  /\ gatewayKinds = {}

\* groupByTimeProximity applied to the list and to a reordering of it.
RunSegmenter ==
  /\ planPc = "input"
  /\ \E p \in Orderings(Range(planInput)) :
       /\ planPerm' = p
       /\ planGroupsPerm' = groupByTimeProximity(p)
  /\ planGroups' = groupByTimeProximity(planInput)
  /\ planPc' = "done"
  /\ UNCHANGED <<planInput, planSegs, planBatches, sysVars, pageVars>>

NextSegmenter == RunSegmenter

SpecSegmenter == InitSegmenter /\ [][NextSegmenter]_vars

\* --------------------------------------- specification: the batch planner
InitBatches ==
  /\ planSegs \in PlanSegmentLists
  /\ planInput = <<>>
  /\ planPerm = <<>>
  /\ planGroups = <<>>
  /\ planGroupsPerm = <<>>
  /\ planBatches = <<>>
  /\ planPc = "input"
  /\ InitSys
  /\ InitPage
  /\ dbIds = {}
  /\ gatewayKinds = {}

RunCreateBatches ==
  /\ planPc = "input"
  /\ planBatches' = createBatches(planSegs)
  /\ planPc' = "done"
  /\ UNCHANGED <<planInput, planPerm, planGroups, planGroupsPerm, planSegs, sysVars, pageVars>>

NextBatches == RunCreateBatches

SpecBatches == InitBatches /\ [][NextBatches]_vars

\* ------------------------------------------------ claims: clustering runs
\* How many of the topics name an id.
TimesClustered(list, id) ==
  Cardinality({i \in DOMAIN list : id \in Range(list[i].transcriptIds)})

\* A full cluster run (the body names the date only) that ended in success.
FullRunDone ==
  /\ route.pc = "done"
  /\ route.hasDate /\ ~route.hasIds
  /\ route.status = 200
  /\ route.calls > 0

\* C1: after a full cluster run, whatever the completion service answered
\* for each batch, the transcriptIds of the clusters produced are together
\* exactly the transcript ids of the date, and no id is in two clusters.
C1_Coverage ==
  FullRunDone =>
    /\ ClusteredIds(route.allTopics) = dbIds
    /\ \A id \in dbIds : TimesClustered(route.allTopics, id) = 1

\* C2: when the response text of a batch is unparsable (no JSON-array-shaped
\* substring, or one that fails to parse), the interpreter returns exactly
\* one cluster, titled "Conversations (Part {batchIndex+1})", of category
\* "General", without sections, whose transcriptIds are the ids of the
\* batch; no error propagates. This holds in the on-demand route and in
\* both scheduled jobs.
C2_FallbackGuarantee ==
  (interp.who # "none" /\ interp.kind \in UnparsableKinds) =>
    /\ ~interp.thrown
    /\ Len(interp.topics) = 1
    /\ interp.topics[1].title = <<TitlePart("Conversations (Part", interp.batchIndex + 1)>>
    /\ interp.topics[1].category = "General"
    /\ interp.topics[1].sections = <<>>
    /\ interp.topics[1].hasIds
    /\ interp.topics[1].transcriptIds = interp.batch

\* A step that is one scheduled run for the user.
CronStep ==
  /\ runsLeft' # runsLeft
  /\ route' = route

\* C12: a scheduled run that finds a record of (user, today) updated less
\* than the freshness window ago, with a transcriptionCount equal to the
\* number of transcripts of today, calls the completion service for
\* nothing, writes nothing and reports 'skipped'; where the record is
\* missing, older or of another count, the run recomputes.
C12_FreshnessSkip ==
  [][CronStep =>
       IF /\ stored.exists
          /\ now - stored.updated_at < FreshMinutes
          /\ stored.transcription_count = Cardinality(dbIds)
       THEN /\ cronResult'.status = "skipped"
            /\ cronResult'.calls = 0
            /\ interp' = interp
            /\ stored' = stored
            /\ lastPut' = lastPut
       ELSE /\ cronResult'.status # "skipped"
            /\ cronResult'.calls >= 1
            /\ interp'.who \in {"cron", "cronV1"}]_vars

C12_Witness ==
  /\ cronResult.status = "skipped"
  /\ stored.exists
  /\ stored.transcription_count = Cardinality(dbIds)
  /\ now - stored.updated_at < FreshMinutes

\* C13: a completion call that throws for a batch is not fatal: the run
\* records the fallback cluster of that batch and ends in success, in the
\* on-demand route and in the batched scheduled job, with one batch or with
\* several.
C13_BatchFailureNotFatal ==
  (interp.who \in {"route", "cron"} /\ interp.kind = "throws") =>
    /\ ~interp.thrown
    /\ Len(interp.topics) = 1
    /\ interp.topics[1].hasIds
    /\ interp.topics[1].transcriptIds = interp.batch
    /\ (interp.who = "cron" /\ cronResult.job = "batched" /\ cronResult.status # "skipped")
         => cronResult.status = "success"
    /\ (interp.who = "route" /\ route.pc = "done" /\ route.calls > 0)
         => route.status = 200

\* C15: whenever the upsert of the cluster set fails, the invocation does
\* not answer with success, and the stored record is left as it was.
C15_PersistenceErrorsFatal ==
  [][(route.pc = "save" /\ route'.pc = "done" /\ route'.upsertError) =>
       /\ route'.status # 200
       /\ stored' = stored]_vars

\* C18: a response of the route's completion call that parses to an empty
\* array, to an array holding a non-object or to objects without
\* transcriptIds is replaced by the fallback cluster of the batch; no cluster
\* without transcriptIds reaches the stored record, and the request is not
\* aborted.
C18_ResponseValidation ==
  (interp.who = "route" /\ interp.kind \in {"emptyArray", "nonObject", "noIds"}) =>
    /\ ~interp.thrown
    /\ Len(interp.topics) = 1
    /\ interp.topics[1].title = <<TitlePart("Conversations (Part", interp.batchIndex + 1)>>
    /\ interp.topics[1].hasIds
    /\ interp.topics[1].transcriptIds = interp.batch
    /\ \A k \in DOMAIN stored.topics : stored.topics[k].hasIds
    /\ (route.pc = "done" /\ route.calls > 0) => route.status = 200

\* C19: every cluster a clustering run of the route answers with has
\* startTime equal to the earliest and endTime equal to the latest date of
\* its member transcripts, whatever times the completion service wrote.
C19_ClusterTimeBounds ==
  (route.pc = "done" /\ route.status = 200) =>
    \A k \in DOMAIN route.topics :
      LET topic == route.topics[k] IN
      (topic.hasIds /\ Range(topic.transcriptIds) \cap UserIds # {}) =>
        /\ topic.startTime = MinDate(topic.transcriptIds)
        /\ topic.endTime = MaxDate(topic.transcriptIds)

\* The ids of a cluster list are pairwise different.
UniqueIds(list) ==
  \A j \in DOMAIN list : \A k \in DOMAIN list : j # k => list[j].id # list[k].id

\* C21: among the clusters of one batched clustering run (of the route or of
\* the batched scheduled job) no two have the same id, and the n-th cluster
\* made for batch i has the id "batch{i}_topic_{n}", whether the batch was
\* parsed, fell back inside processBatch or fell back in the caller's catch.
C21_RunIdUniqueness ==
  /\ route.pc \in {"save", "done"} => UniqueIds(route.allTopics)
  /\ lastPut.writer = "cron" => UniqueIds(lastPut.value)
  /\ interp.who \in {"route", "cron"} =>
       \A n \in DOMAIN interp.topics :
         interp.topics[n].id = ClusterId("batch_topic", interp.batchIndex, n)

\* A step of the route's batch loop.
BatchDispatched == route.pc = "batch" /\ route'.calls = route.calls + 1

\* C23: within one invocation of the route the completion calls are made
\* one after the other: a call starts only when the result (or fallback) of
\* every earlier batch has been accumulated, batches are taken in increasing
\* batch index, which is their chronological order, and the accumulated
\* cluster list is ordered by batch index.
C23_SequentialDispatch ==
  [][/\ BatchDispatched =>
          /\ route.calls = route.i
          /\ interp'.batchIndex = route.i
          /\ interp'.batch = BatchIds(route.batches[route.i + 1])
          /\ route'.i = route.i + 1
          /\ Len(route'.allTopics) = Len(route.allTopics) + Len(interp'.topics)
          /\ \A b \in 1..route.i : \A x \in DOMAIN route.batches[b] :
               \A y \in DOMAIN route.batches[route.i + 1] :
                 route.batches[b][x].date <= route.batches[route.i + 1][y].date
     /\ \A j \in DOMAIN route'.allTopics : \A k \in DOMAIN route'.allTopics :
          j < k => route'.allTopics[j].id.a <= route'.allTopics[k].id.a]_vars

\* A run of two batches, both accumulated.
C23_Witness ==
  /\ route.pc = "save"
  /\ route.i = 2
  /\ \E j \in DOMAIN route.allTopics : route.allTopics[j].id.a = 0
  /\ \E k \in DOMAIN route.allTopics : route.allTopics[k].id.a = 1

\* C27: when the body carries a transcriptIds list, empty or not, with or
\* without a date, every transcript the route sends to the completion
\* service and every id in the clusters it answers with is in that list.
C27_SelectedSubsetOnly ==
  (route.hasIds /\ route.pc \in {"batch", "save", "done"}) =>
    /\ \A i \in DOMAIN route.transcriptions : route.transcriptions[i].id \in route.ids
    /\ \A b \in DOMAIN route.batches : \A i \in DOMAIN route.batches[b] :
         route.batches[b][i].id \in route.ids
    /\ (route.pc = "done" /\ route.status = 200) =>
         \A k \in DOMAIN route.topics : Range(route.topics[k].transcriptIds) \subseteq route.ids

\* ------------------------------------------------------ claims: the page
\* The list has a cluster with the id and the members of c.
HoldsCluster(list, c) ==
  \E k \in DOMAIN list : list[k].id = c.id /\ list[k].transcriptIds = c.transcriptIds

\* C3: cluster-new-only appends: every value written to the record of
\* (owner, date) on behalf of handleClusterNew, by the route or by the page,
\* holds every cluster the record held when the handler began.
C3_ClusterNewAppends ==
  lastPut.op = "handleClusterNew" =>
    \A k \in DOMAIN lastPut.atStart : HoldsCluster(stored.topics, lastPut.atStart[k])

\* Answers in which the service partitions the ids it was given, or that
\* the interpreter replaces by the fallback cluster of the batch.
FaithfulKinds == PartitionKinds \cup UnparsableKinds \cup {"throws", "emptyArray"}

\* C4: with a service that only assigns the ids it was given, no sequence
\* of cluster-new-only, cluster-selected, merge, rename and delete-cluster
\* operations puts a transcript id in more than one cluster of the page's
\* set, ticking transcripts during a cluster-new-only request included.
C4_NoDuplicateTranscripts ==
  gatewayKinds \subseteq FaithfulKinds =>
    \A id \in Ids : TimesClustered(topics, id) <= 1

\* C5: every value written to the topic_clusters record, by the route, the
\* page or a scheduled job, holds clusters without a transcripts field.
C5_LeanPersistence ==
  \A k \in DOMAIN stored.topics :
    ~stored.topics[k].enriched /\ stored.topics[k].transcripts = <<>>

\* C10: handleClusterNew invoked with no unclustered transcript calls
\* neither the route nor the completion service, writes nothing, and
\* leaves the record and the page's topics as they were.
C10_IncrementalIdempotence ==
  [][(/\ opsLeft' # opsLeft
      /\ invoked'.handler = "handleClusterNew"
      /\ Len(unclusteredTranscripts) = 0)
       => /\ route' = route
          /\ interp' = interp
          /\ pending' = pending
          /\ clustering' = clustering
          /\ stored' = stored
          /\ lastPut' = lastPut
          /\ topics' = topics]_vars

C10_Witness ==
  /\ invoked.handler = "handleClusterNew"
  /\ invoked.unclustered = 0
  /\ Len(topics) > 0
  /\ stored.exists
  /\ pending = NoPending

\* A click on "Merge (n)" that the user confirmed: the ticks are cleared.
MergeConfirmed ==
  /\ opsLeft' # opsLeft
  /\ invoked'.handler = "handleMergeTopics"
  /\ selectedTopics' = {}

\* C11: a confirmed merge of two or more ticked clusters leaves none of
\* them in the set, adds exactly one new cluster whose transcriptIds are,
\* without duplicates, the union of theirs, and keeps every cluster that
\* was not ticked.
C11_MergeInvariant ==
  [][LET ticked == {i \in DOMAIN topics : topics[i].id \in selectedTopics}
         added  == {k \in DOMAIN topics' : topics'[k].id \notin TopicIds(topics)}
     IN  (MergeConfirmed /\ Cardinality(ticked) >= 2) =>
           /\ \A k \in DOMAIN topics' : topics'[k].id \notin selectedTopics
           /\ Cardinality(added) = 1
           /\ \A k \in added :
                /\ Range(topics'[k].transcriptIds) =
                     UNION {Range(topics[i].transcriptIds) : i \in ticked}
                /\ Cardinality(Range(topics'[k].transcriptIds)) = Len(topics'[k].transcriptIds)
           /\ Len(topics') = Len(topics) - Cardinality(ticked) + 1
           /\ \A i \in DOMAIN topics \ ticked :
                \E k \in DOMAIN topics' : topics'[k] = topics[i]]_vars

C11_Witness ==
  /\ invoked.handler = "handleMergeTopics"
  /\ selectedTopics = {}
  /\ \E k \in DOMAIN topics :
       /\ topics[k].id.kind = "merged"
       /\ Len(topics[k].transcriptIds) >= 2
  /\ Len(topics) >= 2

\* A step in which a clustering call of the page ends: its fetch resolved
\* and the handler ran to its end, or its timer fired.
CallEnds ==
  /\ pending.handler # "none" /\ ~pending.aborted
  /\ pending'.aborted \/ pending'.handler = "none"

\* The four outcomes a call can end in, read from the response and from
\* what the page shows after the step.
OutcomeClusters ==
  /\ route.pc = "done" /\ route.status = 200 /\ Len(route.topics) > 0
  /\ clusterError' = "null"
  /\ TopicIds(route.topics) \subseteq TopicIds(topics')

OutcomeEmpty ==
  /\ route.pc = "done" /\ route.status = 200 /\ Len(route.topics) = 0
  /\ clusterError' \in {"null", "No topics could be identified"}
  /\ topics' = topics

OutcomeTimedOut == clusterError' = "Request timed out" /\ topics' = topics

OutcomeFatal ==
  /\ clusterError' \notin {"null", "No topics could be identified", "Request timed out"}
  /\ topics' = topics

\* C14: every clustering call of the page ends in exactly one of
\* success-with-clusters, success-with-empty, timed-out and fatal error; when
\* the timer fires before the response is taken the outcome is timed-out, and
\* a call whose response is taken never ends timed-out.
C14_TimeoutDistinct ==
  [][CallEnds =>
       /\ Cardinality({o \in {"clusters", "empty", "timedOut", "fatal"} :
                         \/ o = "clusters" /\ OutcomeClusters
                         \/ o = "empty" /\ OutcomeEmpty
                         \/ o = "timedOut" /\ OutcomeTimedOut
                         \/ o = "fatal" /\ OutcomeFatal}) = 1
       /\ pending'.aborted => OutcomeTimedOut
       /\ OutcomeTimedOut => pending'.aborted /\ route' = route]_vars

\* The timer fired while the server was still at its completion calls.
C14_Witness ==
  /\ pending.aborted
  /\ route.pc \in {"batch", "save"}
  /\ clusterError = "Request timed out"
  /\ ~clustering

\* C16: in every state in which the page takes clicks (loaded, no request
\* awaited) the unclustered set is the transcript ids of the date minus the
\* ids in the current clusters minus the ids discarded in the session, also
\* when there is no cluster.
C16_UnclusteredSet ==
  (~loading /\ ~clustering) =>
    Range(BatchIds(unclusteredTranscripts)) =
      ({transcriptions[i].id : i \in DOMAIN transcriptions} \ ClusteredIds(topics)) \ trashedIds

\* C17: every write replaces the whole record without a version check: the
\* record stored is the value of the put that happened last, whoever wrote
\* before and whatever the writer had read.
C17_LastWriterWins ==
  lastPut.writer # "none" =>
    /\ stored.exists
    /\ stored.topics = lastPut.value

\* A lost update: between the moment the last writer's handler began and its
\* put, another put changed a cluster of the record, and the record now
\* stored does not hold that cluster.
C17_Witness ==
  /\ lastPut.writer # "none"
  /\ stored.topics = lastPut.value
  /\ \E k \in DOMAIN lastPut.replaced :
       /\ \A j \in DOMAIN lastPut.atStart : lastPut.atStart[j] # lastPut.replaced[k]
       /\ \A j \in DOMAIN stored.topics : stored.topics[j] # lastPut.replaced[k]

\* C20: after every put, by the route or by the page, the
\* transcription_count of the stored record is the number of transcripts the
\* owner has for the date.
C20_StoredTranscriptionCount ==
  lastPut.writer # "none" => stored.transcription_count = Len(DayTranscripts(dbIds))

\* A click on the delete button of a cluster.
DeleteStep ==
  opsLeft' # opsLeft /\ invoked'.handler = "handleDeleteTopic" /\ pending' = pending

\* C24: deleting a cluster removes exactly the cluster chosen: the page's
\* set afterwards is the set before without one cluster, every other cluster
\* unchanged, and that set is what is put; also in sets extended by
\* cluster-new-only or cluster-selected.
C24_DeleteExactlyOne ==
  [][DeleteStep =>
       /\ \E k \in DOMAIN topics :
            topics' = SubSeq(topics, 1, k - 1) \o SubSeq(topics, k + 1, Len(topics))
       /\ lastPut' # lastPut => stored'.topics = TopicsForStorage(topics')]_vars

\* Enter or the save button in the title editor of a cluster.
RenameStep ==
  opsLeft' # opsLeft /\ invoked'.handler = "saveTopicTitle" /\ pending' = pending

\* C25: a rename either changes nothing and puts nothing (blank title), or
\* replaces the title of the one cluster chosen, every other field of it and
\* every other cluster unchanged, and puts the result.
C25_RenameOnlyTitle ==
  [][RenameStep =>
       \/ topics' = topics /\ stored' = stored /\ lastPut' = lastPut
       \/ /\ \E k \in DOMAIN topics : topics' = [topics EXCEPT ![k].title = EditedTitle]
          /\ lastPut' # lastPut => stored'.topics = TopicsForStorage(topics')]_vars

\* C28: no two clusters of the page's set, and no two clusters of the
\* stored set, have the same id, whatever sequence of full cluster,
\* cluster-new-only, cluster-selected, merge, rename and delete produced them.
C28_SetIdsUnique == UniqueIds(topics) /\ UniqueIds(stored.topics)

\* The response to a cluster-new-only or cluster-selected request is taken
\* and carries clusters.
AppendReceived ==
  /\ pending.handler \in {"handleClusterNew", "handleClusterSelected"} /\ ~pending.aborted
  /\ pending'.handler = "none"
  /\ route.status = 200 /\ Len(route.topics) > 0

\* C29: when the response to a cluster-new-only or cluster-selected request
\* is processed, the page's set is the set the page held just before (with
\* the renames, deletions and merges made while the request was waiting)
\* and the new clusters appended, and that set is what is put.
C29_EditsSurvive ==
  [][AppendReceived =>
       /\ Len(topics') = Len(topics) + Len(route.topics)
       /\ \A k \in DOMAIN topics : \E j \in DOMAIN topics' : topics'[j] = topics[k]
       /\ lastPut' # lastPut => stored'.topics = TopicsForStorage(topics')]_vars

ReclusterStep ==
  opsLeft' # opsLeft /\ invoked'.handler = "handleReclusterAll" /\ pending.handler = "none"

\* The response to a confirmed re-cluster is taken: status 200 with
\* clusters, and the route's upsert went through.
ReclusterSucceeds ==
  /\ pending.handler = "handleReclusterAll" /\ ~pending.aborted
  /\ pending'.handler = "none"
  /\ route.status = 200 /\ Len(route.topics) > 0 /\ ~route.upsertError

C30_NoWriteOnFailure ==
  [][(CallEnds /\ (OutcomeTimedOut \/ OutcomeFatal)) =>
       /\ stored'.topics = pending.stored
       /\ Range(TopicsForStorage(topics')) = Range(TopicsForStorage(stored'.topics))]_vars

\* ------------------------------------------------- claims: batch planner
BatchSizes == [b \in DOMAIN planBatches |-> Len(planBatches[b])]

\* C6: no batch returned by createBatches holds more than MAX_BATCH_SIZE
\* transcripts, also when one segment alone is larger than MAX_BATCH_SIZE; with
\* MAX_BATCH_SIZE = 2 one segment of 5 transcripts gives batches of sizes 2, 2, 1.
C6_BatchBound ==
  planPc = "done" =>
    /\ \A b \in DOMAIN planBatches : Len(planBatches[b]) <= MAX_BATCH_SIZE
    /\ (MAX_BATCH_SIZE = 2 /\ planSegs = <<SegTranscripts(5)>>) => BatchSizes = <<2, 2, 1>>

C6_Witness ==
  /\ planPc = "done"
  /\ \E g \in DOMAIN planSegs : Len(planSegs[g]) > MAX_BATCH_SIZE
  /\ \E g \in DOMAIN planSegs : Len(planSegs[g]) <= MAX_BATCH_SIZE

\* C7: the batches of createBatches, concatenated in batch order, are the
\* input segments concatenated in order: every transcript is in exactly one
\* batch, the order is kept across and within batches, and no batch is empty.
C7_BatchPartition ==
  planPc = "done" =>
    /\ Flatten(planBatches) = Flatten(planSegs)
    /\ \A b \in DOMAIN planBatches : Len(planBatches[b]) > 0
    /\ \A t \in Range(Flatten(planSegs)) :
         Cardinality({bk \in (DOMAIN planBatches) \X (1..MaxSegTotal) :
                        bk[2] <= Len(planBatches[bk[1]]) /\ planBatches[bk[1]][bk[2]] = t}) = 1

C7_Witness ==
  /\ planPc = "done"
  /\ Len(planSegs) >= 3
  /\ Len(planBatches) >= 2
  /\ Len(planBatches) < Len(planSegs)

\* --------------------------------------------------- claims: segmenter
\* The segment (index into groups) that holds position k of the flattened list.
RECURSIVE SegmentOf(_, _)
SegmentOf(groups, k) ==
  IF k <= Len(Head(groups)) THEN 1 ELSE 1 + SegmentOf(Tail(groups), k - Len(Head(groups)))

\* C8: groupByTimeProximity returns non-empty segments that hold every input
\* transcript exactly once, in ascending time order; two neighbours of the
\* sorted list are in different segments exactly when they are more than 30
\* minutes apart (exactly 30 minutes stays together); empty input gives empty
\* output; 09:00, 09:10, 11:00 gives [t1,t2],[t3].
C8_Segmenter ==
  planPc = "done" =>
    LET flat == Flatten(planGroups) IN
    /\ \A g \in DOMAIN planGroups : Len(planGroups[g]) > 0
    /\ IsPermutationOf(flat, planInput)
    /\ \A k \in 1..(Len(flat) - 1) : flat[k].date <= flat[k + 1].date
    /\ \A k \in 1..(Len(flat) - 1) :
         (SegmentOf(planGroups, k) # SegmentOf(planGroups, k + 1))
           <=> (flat[k + 1].date - flat[k].date > 30)
    /\ (planInput = <<>>) => (planGroups = <<>>)
    /\ \A a, b, c \in PlanIds :
         planInput = <<[id |-> a, date |-> 540], [id |-> b, date |-> 550], [id |-> c, date |-> 660]>>
           => planGroups = <<<<planInput[1], planInput[2]>>, <<planInput[3]>>>>

C8_Witness ==
  /\ planPc = "done"
  /\ Len(planGroups) = 2
  /\ Len(planGroups[1]) = 2
  /\ planGroups[1][2].date - planGroups[1][1].date = 30
  /\ planGroups[2][1].date - planGroups[1][2].date = 31

\* C9: every reordering of the same transcript list gives identical segments
\* (the same segments, the same order of transcripts inside each), also when
\* two transcripts carry the same timestamp.
C9_SegmentationDeterminism ==
  planPc = "done" => planGroups = planGroupsPerm

====
